---- MODULE Spec2Model ----
(***************************************************************************)
(* A model of src/prove_pi_limit_42_english.py: the constants, the two     *)
(* closed-form functions calculate_nmax and pi_eff, the convergence scan   *)
(* over N_range, the report branch, and the rendering / save / summary     *)
(* steps that follow it.                                                   *)
(*                                                                         *)
(* The script computes in IEEE-754 binary64 (numpy.float64).  A float64 is *)
(* modelled bit-exactly as sign, 53-bit significand and binary exponent,   *)
(* with round-to-nearest-even, gradual underflow, overflow to infinity and *)
(* NaN.  TLC's integers are 32 bits wide, so a significand is held as a    *)
(* natural number in base 2^13 (a little-endian sequence of limbs).        *)
(***************************************************************************)
EXTENDS Integers, Sequences, FiniteSets, TLC

(***************************************************************************)
(* Natural numbers of any size: little-endian sequences of limbs in base   *)
(* 2^13, without high zero limbs; << >> is zero.                           *)
(***************************************************************************)
LimbBits == 13
LimbBase == 8192

\* The element of a one-element set.  Val({ e : x \in {v} }) is e with x
\* standing for the value of v: v is computed once, however often e uses x.
Val(S) == CHOOSE r \in S : TRUE

MaxOf(S) == CHOOSE m \in S : \A j \in S : j <= m

MinOf(S) == CHOOSE m \in S : \A j \in S : m <= j

\* Drop the high zero limbs.
BTrim(x) ==
  Val({ Val({ IF nz = {} THEN << >> ELSE SubSeq(a, 1, MaxOf(nz))
              : nz \in {{i \in 1..Len(a) : a[i] # 0}} })
        : a \in {x} })

\* The limb of a at position i (1-based), 0 beyond its length.
BLimb(a, i) == IF i >= 1 /\ i <= Len(a) THEN a[i] ELSE 0

\* A machine integer 0 <= n < 2^31 as a natural number.
BNat(n) ==
  BTrim(<< n % LimbBase, (n \div LimbBase) % LimbBase,
           n \div (LimbBase * LimbBase) >>)

\* -1, 0, 1 as a < b, a = b, a > b.
BCmp(x, y) ==
  Val({ IF Len(a) # Len(b) THEN (IF Len(a) < Len(b) THEN -1 ELSE 1)
        ELSE Val({ IF d = {} THEN 0
                   ELSE IF a[MaxOf(d)] < b[MaxOf(d)] THEN -1 ELSE 1
                   : d \in {{i \in 1..Len(a) : a[i] # b[i]}} })
        : a \in {x}, b \in {y} })

\* Three limbs to the left of each column, regrouped: the column sums
\* cols[k] < 2^31 become values below 3 * LimbBase.
BCarrySplit(cols, n) ==
  SubSeq([k \in 1..(n + 3) |->
            (BLimb(cols, k) % LimbBase)
            + ((BLimb(cols, k - 1) \div LimbBase) % LimbBase)
            + (BLimb(cols, k - 2) \div (LimbBase * LimbBase))], 1, n + 3)

\* The values d[k] < 3 * LimbBase regrouped to values below 2 * LimbBase.
BCarryFold(d, n) ==
  SubSeq([k \in 1..(n + 3) |->
            (d[k] % LimbBase) + (IF k > 1 THEN d[k - 1] \div LimbBase ELSE 0)],
         1, n + 3)

\* Whether a carry enters position k of e: some lower position generates
\* one and every position between passes it on.
BCarryIn(e, k) ==
  \E i \in 1..(k - 1) :
     /\ e[i] >= LimbBase
     /\ \A j \in (i + 1)..(k - 1) : e[j] >= LimbBase - 1

\* The natural number sum of cols[k] * LimbBase^(k-1) over k in 1..n, for
\* columns 0 <= cols[k] < 2^31.
BCarry(cols, n) ==
  Val({ BTrim(SubSeq([k \in 1..(n + 3) |->
                        (e[k] + (IF BCarryIn(e, k) THEN 1 ELSE 0)) % LimbBase],
                     1, n + 3))
        : e \in {Val({ BCarryFold(d, n) : d \in {BCarrySplit(cols, n)} })} })

BAdd(x, y) ==
  Val({ Val({ BCarry(SubSeq([k \in 1..n |-> BLimb(a, k) + BLimb(b, k)], 1, n),
                     n)
              : n \in {IF Len(a) > Len(b) THEN Len(a) ELSE Len(b)} })
        : a \in {x}, b \in {y} })

\* Whether a borrow enters position k of the limb differences e.
BBorrowIn(e, k) ==
  \E i \in 1..(k - 1) :
     /\ e[i] < 0
     /\ \A j \in (i + 1)..(k - 1) : e[j] <= 0

\* a - b, for a >= b.
BSub(x, y) ==
  Val({ Val({ BTrim(SubSeq([k \in 1..Len(a) |->
                              (e[k] - (IF BBorrowIn(e, k) THEN 1 ELSE 0)
                               + LimbBase) % LimbBase], 1, Len(a)))
              : e \in {SubSeq([k \in 1..Len(a) |-> a[k] - BLimb(b, k)],
                              1, Len(a))} })
        : a \in {x}, b \in {y} })

\* a * s, for a machine integer 0 <= s < 2^18.
BMulSmall(x, t) ==
  Val({ IF s = 0 \/ a = << >> THEN << >>
        ELSE BCarry(SubSeq([k \in 1..Len(a) |-> a[k] * s], 1, Len(a)), Len(a))
        : a \in {x}, s \in {t} })

\* a * LimbBase^k: k zero limbs below a.
BShlLimbs(x, k) ==
  Val({ IF a = << >> THEN << >> ELSE [i \in 1..k |-> 0] \o a : a \in {x} })

\* The most limbs of the shorter factor of a product.
MulLimbs == 12

\* Column k of the product a * b: the sum of a[i] * b[k + 1 - i].
BMulCol(a, b, k) ==
    BLimb(a, 1) * BLimb(b, k)       + BLimb(a, 2) * BLimb(b, k - 1)
  + BLimb(a, 3) * BLimb(b, k - 2)   + BLimb(a, 4) * BLimb(b, k - 3)
  + BLimb(a, 5) * BLimb(b, k - 4)   + BLimb(a, 6) * BLimb(b, k - 5)
  + BLimb(a, 7) * BLimb(b, k - 6)   + BLimb(a, 8) * BLimb(b, k - 7)
  + BLimb(a, 9) * BLimb(b, k - 8)   + BLimb(a, 10) * BLimb(b, k - 9)
  + BLimb(a, 11) * BLimb(b, k - 10) + BLimb(a, 12) * BLimb(b, k - 11)

\* The columns of a * b, a being the shorter factor.
BMulCols(a, b, n) == SubSeq([k \in 1..n |-> BMulCol(a, b, k)], 1, n)

\* a * b, where the shorter factor has at most MulLimbs limbs.
BMul(x, y) ==
  Val({ IF a = << >> \/ b = << >> THEN << >>
        ELSE IF Len(a) <= Len(b)
        THEN BCarry(BMulCols(a, b, Len(a) + Len(b)), Len(a) + Len(b))
        ELSE BCarry(BMulCols(b, a, Len(a) + Len(b)), Len(a) + Len(b))
        : a \in {x}, b \in {y} })

\* Bits of a machine integer 0 <= n < LimbBase.
SmallBitLen(n) ==
  IF n = 0 THEN 0 ELSE MinOf({k \in 1..LimbBits : n < 2^k})

BBitLen(a) ==
  IF a = << >> THEN 0
  ELSE LimbBits * (Len(a) - 1) + SmallBitLen(a[Len(a)])

\* a * 2^n.
BShl(x, n) ==
  Val({ IF a = << >> THEN << >>
        ELSE BShlLimbs(BTrim(SubSeq([i \in 1..(Len(a) + 1) |->
                                       ((BLimb(a, i) * 2^r) % LimbBase)
                                       + (BLimb(a, i - 1)
                                          \div 2^(LimbBits - r))],
                                    1, Len(a) + 1)), k)
        : a \in {x}, k \in {n \div LimbBits}, r \in {n % LimbBits} })

\* floor(a / 2^n).
BShr(x, n) ==
  Val({ IF Len(a) <= k THEN << >>
        ELSE BTrim(SubSeq([i \in 1..(Len(a) - k) |->
                             (a[i + k] \div 2^r)
                             + ((BLimb(a, i + k + 1) % 2^r)
                                * 2^(LimbBits - r))], 1, Len(a) - k))
        : a \in {x}, k \in {n \div LimbBits}, r \in {n % LimbBits} })

\* Whether a is a multiple of 2^n (its low n bits are zero).
BLowZero(x, n) ==
  Val({ /\ \A i \in 1..k : BLimb(a, i) = 0
        /\ BLimb(a, k + 1) % (2^r) = 0
        : a \in {x}, k \in {n \div LimbBits}, r \in {n % LimbBits} })

\* Bit i (0-based) of a.
BBit(a, i) == (BLimb(a, (i \div LimbBits) + 1) \div 2^(i % LimbBits)) % 2

BOdd(a) == BLimb(a, 1) % 2 = 1

\* floor(a / s) for a machine integer 0 < s < 2^17, high limb first: the
\* limbs of a above i have given the quotient limbs q and the remainder r.
RECURSIVE BDivSmallC(_, _, _, _, _)
BDivSmallC(a, s, i, r, q) ==
  IF i = 0 \/ r < 0 \/ Len(q) < 0 THEN q
  ELSE BDivSmallC(a, s, i - 1, (r * LimbBase + a[i]) % s,
                  << (r * LimbBase + a[i]) \div s >> \o q)

BDivSmall(x, s) ==
  Val({ BTrim(BDivSmallC(a, s, Len(a), 0, << >>)) : a \in {x} })

\* Long division corrects a quotient limb estimated from below.
RECURSIVE BDivFix(_, _, _)
BDivFix(r, b, q) ==
  IF BCmp(r, b) < 0 THEN << q, r >> ELSE BDivFix(BSub(r, b), b, q + 1)

\* The estimate of the next quotient limb, from the two high limbs of cur
\* and the high limb of b; never above the true limb.
BDivGuess(cur, b) ==
  (BLimb(cur, Len(b) + 1) * LimbBase + BLimb(cur, Len(b)))
  \div (b[Len(b)] + 1)

\* One step of long division: st is << quotient limbs, remainder >> of the
\* limbs above ai.
BDivLimb(ai, b, st) ==
  Val({ Val({ Val({ << << fix[1] >> \o st[1], fix[2] >>
                    : fix \in {BDivFix(BSub(cur, BMulSmall(b, q0)), b, q0)} })
              : q0 \in {BDivGuess(cur, b)} })
        : cur \in {BTrim(<< ai >> \o st[2])} })

\* Long division, high limb first; b has its top bit set.
RECURSIVE BDivStep(_, _, _, _)
BDivStep(a, b, i, st) ==
  IF i = 0 \/ Len(st) < 0 THEN st
  ELSE BDivStep(a, b, i - 1, BDivLimb(a[i], b, st))

\* << floor(a / b), whether the division is exact >>, for b # 0.
BDivMod(x, y) ==
  Val({ Val({ Val({ Val({ << BTrim(res[1]), res[2] = << >> >>
                          : res \in {BDivStep(an, bn, Len(an),
                                              << << >>, << >> >>)} })
                    : an \in {BShl(x, s)}, bn \in {BShl(b, s)} })
              : s \in {LimbBits - SmallBitLen(b[Len(b)])} })
        : b \in {y} })

\* floor(sqrt(a)) by Newton's iteration from above: y follows x.
RECURSIVE BSqrtIter(_, _)
BSqrtNext(a, x, y) == IF BCmp(y, x) >= 0 THEN x ELSE BSqrtIter(a, y)

BSqrtIter(a, x) == BSqrtNext(a, x, BShr(BAdd(x, BDivMod(a, x)[1]), 1))

BSqrt(x) ==
  Val({ IF a = << >> THEN << >>
        ELSE BSqrtIter(a, BShl(<< 1 >>, (BBitLen(a) + 1) \div 2))
        : a \in {x} })

(***************************************************************************)
(* IEEE-754 binary64.  A finite value is (-1)^sign * man * 2^exp with      *)
(* man < 2^53; a normal number has 2^52 <= man, a subnormal or a zero has  *)
(* exp = ExpMin.                                                           *)
(***************************************************************************)
MantBits == 53
ExpMin == -1074
ExpMax == 971

Fin(sg, m, e) == [cls |-> "fin", sign |-> sg, man |-> m, exp |-> e]

Zero(sg) == Fin(sg, << >>, ExpMin)

Inf(sg) == [cls |-> "inf", sign |-> sg, man |-> << >>, exp |-> 0]

NaN == [cls |-> "nan", sign |-> 0, man |-> << >>, exp |-> 0]

IsZero(a) == a.cls = "fin" /\ a.man = << >>

\* The significand q, exact up to the dropped bits, rounded up when up holds
\* and renormalised when that carries into bit MantBits.
RoundUp(sg, q, e1, up) ==
  Val({ Val({ Val({ IF m2 = << >> THEN Zero(sg)
                    ELSE IF e2 > ExpMax THEN Inf(sg) ELSE Fin(sg, m2, e2)
                    : m2 \in {IF carry THEN BShr(q1, 1) ELSE q1},
                      e2 \in {IF carry THEN e1 + 1 ELSE e1} })
              : carry \in {BBitLen(q1) > MantBits} })
        : q1 \in {IF up THEN BAdd(q, << 1 >>) ELSE q} })

\* m * 2^e with its low sh > 0 bits dropped: round to nearest, ties to even.
RoundShift(sg, m, sh, e1, sticky) ==
  Val({ RoundUp(sg, q, e1,
                /\ BBit(m, sh - 1) = 1
                /\ (sticky \/ ~BLowZero(m, sh - 1) \/ BOdd(q)))
        : q \in {BShr(m, sh)} })

\* (-1)^sg * (m * 2^e, plus less than one unit of 2^e when sticky) rounded
\* to the nearest float64, ties to even.
RoundPack(sg, x, e, sticky) ==
  Val({ IF m = << >> THEN Zero(sg)
        ELSE Val({ IF e1 <= e
                   THEN (IF e1 > ExpMax THEN Inf(sg)
                         ELSE Fin(sg, BShl(m, e - e1), e1))
                   ELSE RoundShift(sg, m, e1 - e, e1, sticky)
                   : e1 \in {IF e + BBitLen(m) - MantBits > ExpMin
                             THEN e + BBitLen(m) - MantBits ELSE ExpMin} })
        : m \in {x} })

SignXor(a, b) == (a.sign + b.sign) % 2

FNeg(x) ==
  Val({ IF a.cls = "nan" THEN a ELSE [a EXCEPT !.sign = 1 - a.sign]
        : a \in {x} })

FAbs(x) ==
  Val({ IF a.cls = "nan" THEN a ELSE [a EXCEPT !.sign = 0] : a \in {x} })

FMul(x, y) ==
  Val({ IF a.cls = "nan" \/ b.cls = "nan" THEN NaN
        ELSE IF a.cls = "inf" \/ b.cls = "inf"
        THEN (IF IsZero(a) \/ IsZero(b) THEN NaN ELSE Inf(SignXor(a, b)))
        ELSE RoundPack(SignXor(a, b), BMul(a.man, b.man), a.exp + b.exp,
                       FALSE)
        : a \in {x}, b \in {y} })

\* The quotient num / den of two natural numbers, den # 0, to MantBits + 3
\* bits or more: << quotient, bits the numerator was shifted by, exact >>.
BQuot(num, den) ==
  Val({ Val({ << qr[1], s, qr[2] >> : qr \in {BDivMod(BShl(num, s), den)} })
        : s \in {IF MantBits + 3 + BBitLen(den) - BBitLen(num) > 0
                 THEN MantBits + 3 + BBitLen(den) - BBitLen(num) ELSE 0} })

\* numpy.float64 division: a division by zero gives inf or nan (with a
\* RuntimeWarning), never an exception.
FDiv(x, y) ==
  Val({ IF a.cls = "nan" \/ b.cls = "nan" THEN NaN
        ELSE IF a.cls = "inf"
        THEN (IF b.cls = "inf" THEN NaN ELSE Inf(SignXor(a, b)))
        ELSE IF b.cls = "inf" THEN Zero(SignXor(a, b))
        ELSE IF IsZero(b)
        THEN (IF IsZero(a) THEN NaN ELSE Inf(SignXor(a, b)))
        ELSE IF IsZero(a) THEN Zero(SignXor(a, b))
        ELSE Val({ RoundPack(SignXor(a, b), qr[1], a.exp - b.exp - qr[2],
                             ~qr[3])
                   : qr \in {BQuot(a.man, b.man)} })
        : a \in {x}, b \in {y} })

\* Magnitudes |a| < |b| of two finite values.
MagLess(a, b) ==
  IF a.exp # b.exp THEN a.exp < b.exp ELSE BCmp(a.man, b.man) < 0

FarGap == 60

\* The sum of two finite non-zero values with |a| >= |b|.
AddOrdered(a, b) ==
  IF a.exp - b.exp >= FarGap
  THEN \* b is below a quarter of a's last place: it only decides the
       \* direction of rounding.
       RoundPack(a.sign,
                 IF a.sign = b.sign THEN BShl(a.man, 2)
                 ELSE BSub(BShl(a.man, 2), << 1 >>),
                 a.exp - 2, TRUE)
  ELSE Val({ IF a.sign = b.sign
             THEN RoundPack(a.sign, BAdd(am, b.man), b.exp, FALSE)
             ELSE IF am = b.man THEN Zero(0)
             ELSE RoundPack(a.sign, BSub(am, b.man), b.exp, FALSE)
             : am \in {BShl(a.man, a.exp - b.exp)} })

FAdd(x, y) ==
  Val({ IF a.cls = "nan" \/ b.cls = "nan" THEN NaN
        ELSE IF a.cls = "inf"
        THEN (IF b.cls = "inf" /\ a.sign # b.sign THEN NaN ELSE a)
        ELSE IF b.cls = "inf" THEN b
        ELSE IF IsZero(a)
        THEN (IF IsZero(b)
              THEN Zero(IF a.sign = 1 /\ b.sign = 1 THEN 1 ELSE 0)
              ELSE b)
        ELSE IF IsZero(b) THEN a
        ELSE IF MagLess(a, b) THEN AddOrdered(b, a) ELSE AddOrdered(a, b)
        : a \in {x}, b \in {y} })

FSub(a, b) == FAdd(a, FNeg(b))

\* a < b; any comparison with NaN is false.
FLt(x, y) ==
  Val({ IF a.cls = "nan" \/ b.cls = "nan" THEN FALSE
        ELSE IF IsZero(a) /\ IsZero(b) THEN FALSE
        ELSE IF a.sign # b.sign THEN a.sign = 1
        ELSE IF a.cls = "inf" \/ b.cls = "inf"
        THEN (IF a.cls = b.cls THEN FALSE
              ELSE IF a.cls = "inf" THEN a.sign = 1 ELSE a.sign = 0)
        ELSE IF a.sign = 0 THEN MagLess(a, b) ELSE MagLess(b, a)
        : a \in {x}, b \in {y} })

FEq(x, y) ==
  Val({ IF a.cls = "nan" \/ b.cls = "nan" THEN FALSE
        ELSE IF IsZero(a) /\ IsZero(b) THEN TRUE
        ELSE a = b
        : a \in {x}, b \in {y} })

FLe(x, y) == Val({ FLt(a, b) \/ FEq(a, b) : a \in {x}, b \in {y} })

\* A machine integer as a float64 (exact).
FInt(n) ==
  IF n < 0 THEN RoundPack(1, BNat(0 - n), 0, FALSE)
  ELSE RoundPack(0, BNat(n), 0, FALSE)

\* The float64 nearest to num / den: how a decimal literal is read.
FRatio(num, den) ==
  Val({ RoundPack(0, qr[1], 0 - qr[2], ~qr[3]) : qr \in {BQuot(num, den)} })

\* The shift t that makes a.man * 2^t a number of 2 * MantBits + 3 bits or
\* more with a.exp - t even.
SqrtShift(a) ==
  IF (a.exp - (2 * MantBits + 4 - BBitLen(a.man))) % 2 = 0
  THEN 2 * MantBits + 4 - BBitLen(a.man)
  ELSE 2 * MantBits + 5 - BBitLen(a.man)

FSqrt(x) ==
  Val({ IF a.cls = "nan" THEN NaN
        ELSE IF IsZero(a) THEN a
        ELSE IF a.sign = 1 THEN NaN
        ELSE IF a.cls = "inf" THEN a
        ELSE Val({ Val({ Val({ RoundPack(0, r, (a.exp - t) \div 2,
                                         BMul(r, r) # w)
                               : r \in {BSqrt(w)} })
                         : w \in {BShl(a.man, t)} })
                   : t \in {SqrtShift(a)} })
        : a \in {x} })

(***************************************************************************)
(* Extended precision.  The elementary functions of the C library that     *)
(* numpy calls (pow, exp, log) are modelled as correctly rounded: the      *)
(* result is computed to XBits significant bits and rounded once.  An      *)
(* extended value is man * 2^exp with man of exactly XBits bits; inx       *)
(* records that bits were dropped.                                         *)
(***************************************************************************)
XBits == 120

XNorm(x, e, lost) ==
  Val({ IF n >= XBits
        THEN [man |-> BShr(m, n - XBits), exp |-> e + n - XBits,
              inx |-> lost \/ ~BLowZero(m, n - XBits)]
        ELSE [man |-> BShl(m, XBits - n), exp |-> e - (XBits - n),
              inx |-> lost]
        : m \in {x}, n \in {BBitLen(x)} })

XOne == XNorm(<< 1 >>, 0, FALSE)

XMul(x, y) ==
  Val({ XNorm(BMul(a.man, b.man), a.exp + b.exp, a.inx \/ b.inx)
        : a \in {x}, b \in {y} })

XInv(x) ==
  Val({ Val({ XNorm(qr[1], 0 - (2 * XBits + 1) - a.exp, a.inx \/ ~qr[2])
              : qr \in {BDivMod(BShl(<< 1 >>, 2 * XBits + 1), a.man)} })
        : a \in {x} })

\* The bits of a machine integer 0 <= n < 2^31.
IntBitLen(n) == IF n = 0 THEN 0 ELSE MinOf({k \in 1..31 : n \div 2^(k - 1) < 2})

\* a^n for n >= 0 by repeated squaring, from the high bit of n down: acc is
\* a to the power of the bits of n above bit i.
RECURSIVE XPowAcc(_, _, _, _)
XPowAcc(a, n, i, acc) ==
  IF i = 0 \/ acc.exp # acc.exp THEN acc
  ELSE XPowAcc(a, n, i - 1,
               IF (n \div 2^(i - 1)) % 2 = 1 THEN XMul(XMul(acc, acc), a)
               ELSE XMul(acc, acc))

XPow(a, n) == XPowAcc(a, n, IntBitLen(n), XOne)

XRound(sg, x) == Val({ RoundPack(sg, w.man, w.exp, w.inx) : w \in {x} })

\* a ** n for an integer n, as pow(a, float(n)) computes it.
FPow(x, n) ==
  Val({ Val({ IF n = 0 THEN FInt(1)
              ELSE IF a.cls = "nan" THEN NaN
              ELSE IF a.cls = "inf"
              THEN (IF n > 0 THEN Inf(sg) ELSE Zero(sg))
              ELSE IF IsZero(a) THEN (IF n > 0 THEN Zero(sg) ELSE Inf(sg))
              ELSE Val({ XRound(sg, IF n > 0 THEN p ELSE XInv(p))
                         : p \in {XPow(XNorm(a.man, a.exp, FALSE),
                                       IF n > 0 THEN n ELSE 0 - n)} })
              : sg \in {IF n % 2 = 1 THEN a.sign ELSE 0} })
        : a \in {x} })

\* floor(e * 2^118) and floor(ln(2) * 2^120).
XE == [man |-> << 7484, 313, 5512, 8120, 2474, 7589, 650, 2699, 3576, 5 >>,
       exp |-> -118, inx |-> TRUE]

LN2 == << 4854, 31, 3302, 5063, 6844, 1980, 8007, 766, 4466, 5 >>

\* sum of t^k / k! for k >= j, where term = t^(j-1) / (j-1)!, in units of
\* 2^-XBits.
RECURSIVE ExpSeries(_, _, _, _)
ExpSeries(t, term, j, acc) ==
  IF term = << >> \/ Len(acc) < 0 THEN acc
  ELSE ExpSeries(t, BDivSmall(BShr(BMul(term, t), XBits), j), j + 1,
                 BAdd(acc, term))

\* Arguments above ExpBig in magnitude overflow or underflow to zero.
ExpBig == 11

\* a = n + f with n an integer and 0 <= f < 1, from |a| = n0 + f0 (f0 in
\* units of 2^-XBits, lostf when bits of it were dropped).
ExpFloor(neg, n0, f0, lostf) ==
  [n |-> IF ~neg THEN n0
         ELSE IF f0 = << >> /\ ~lostf THEN 0 - n0 ELSE 0 - n0 - 1,
   f |-> IF ~neg \/ (f0 = << >> /\ ~lostf) THEN f0
         ELSE BSub(BShl(<< 1 >>, XBits),
                   IF lostf THEN BAdd(f0, << 1 >>) ELSE f0),
   lost |-> lostf]

\* The integer and the fraction of a finite a with |a| < 2^ExpBig.
ExpSplit(a) ==
  Val({ Val({ Val({ Val({ ExpFloor(a.sign = 1, BLimb(ip, 1), f0,
                                   sh > XBits /\ ~BLowZero(fr, sh - XBits))
                          : f0 \in {IF sh > XBits THEN BShr(fr, sh - XBits)
                                    ELSE BShl(fr, XBits - sh)} })
                    : fr \in {IF a.exp < 0 THEN BSub(a.man, BShl(ip, sh))
                              ELSE << >>} })
              : ip \in {IF a.exp < 0 THEN BShr(a.man, sh)
                        ELSE BShl(a.man, a.exp)} })
        : sh \in {IF a.exp < 0 THEN 0 - a.exp ELSE 0} })

\* e^n for an integer n.
XExpInt(n) == IF n >= 0 THEN XPow(XE, n) ELSE XInv(XPow(XE, 0 - n))

\* e^f for a fraction 0 <= f < 1 in units of 2^-XBits.
XExpFrac(f, lostf) ==
  IF f = << >> THEN XNorm(<< 1 >>, 0, lostf)
  ELSE XNorm(ExpSeries(f, BShl(<< 1 >>, XBits), 1, << >>), 0 - XBits, TRUE)

\* numpy.exp
FExp(x) ==
  Val({ IF a.cls = "nan" THEN NaN
        ELSE IF a.cls = "inf" THEN (IF a.sign = 0 THEN a ELSE Zero(0))
        ELSE IF IsZero(a) THEN FInt(1)
        ELSE IF a.exp + BBitLen(a.man) > ExpBig
        THEN (IF a.sign = 0 THEN Inf(0) ELSE Zero(0))
        ELSE Val({ IF s.n = 0 THEN XRound(0, XExpFrac(s.f, s.lost))
                   ELSE XRound(0, XMul(XExpInt(s.n), XExpFrac(s.f, s.lost)))
                   : s \in {ExpSplit(a)} })
        : a \in {x} })

\* sum of t^(2k+1) / (2k+1) for k >= j, where p = t^(2j+1) and t2 = t^2, in
\* units of 2^-XBits.
RECURSIVE AtanhSeries(_, _, _, _)
AtanhSeries(p, t2, j, acc) ==
  IF p = << >> \/ Len(acc) < 0 THEN acc
  ELSE AtanhSeries(BShr(BMul(p, t2), XBits), t2, j + 1,
                   BAdd(acc, BDivSmall(p, 2 * j + 1)))

\* 2 * atanh(num / den) in units of 2^-XBits, for num < den.
LogAtanh(num, den) ==
  Val({ Val({ BShl(AtanhSeries(t, t2, 0, << >>), 1)
              : t2 \in {BShr(BMul(t, t), XBits)} })
        : t \in {BDivMod(BShl(num, XBits), den)[1]} })

\* The bits w with a = (m / 2^w) * 2^(a.exp + w) and 3/4 <= m / 2^w < 3/2.
LogWidth(m) ==
  Val({ IF (n >= 2 /\ BBit(m, n - 2) = 0) \/ n = 1 THEN n - 1 ELSE n
        : n \in {BBitLen(m)} })

\* k * ln(2) + ln(m), where |ln(m)| = ath and ln(m) < 0 when below, rounded.
LogSum(k, below, ath) ==
  Val({ Val({ IF mag = << >> THEN Zero(0)
              ELSE RoundPack(IF k = 0 THEN (IF below THEN 1 ELSE 0)
                             ELSE IF k < 0 THEN 1 ELSE 0,
                             mag, 0 - XBits, TRUE)
              : mag \in {IF k = 0 THEN ath
                         ELSE IF (k < 0) = below THEN BAdd(kl, ath)
                         ELSE BSub(kl, ath)} })
        : kl \in {BMulSmall(LN2, IF k < 0 THEN 0 - k ELSE k)} })

\* ln(m / unit) for 3/4 <= m / unit < 3/2 is 2 * atanh((m - unit) / (m + unit)).
LogUnit(k, m, unit) ==
  Val({ Val({ LogSum(k, below, ath)
              : ath \in {LogAtanh(IF below THEN BSub(unit, m)
                                  ELSE BSub(m, unit), BAdd(m, unit))} })
        : below \in {BCmp(m, unit) < 0} })

\* numpy.log: log(0) is -inf and the log of a negative number is nan (with
\* a RuntimeWarning), never an exception.
FLog(x) ==
  Val({ IF a.cls = "nan" THEN NaN
        ELSE IF IsZero(a) THEN Inf(1)
        ELSE IF a.sign = 1 THEN NaN
        ELSE IF a.cls = "inf" THEN a
        ELSE Val({ Val({ LogUnit(a.exp + w, a.man, unit)
                         : unit \in {BShl(<< 1 >>, w)} })
                   : w \in {LogWidth(a.man)} })
        : a \in {x} })

(***************************************************************************)
(* Literals and constants.                                                 *)
(***************************************************************************)
\* 10^n by repeated squaring, from the high bit of n down.
RECURSIVE BPow10Acc(_, _, _)
BPow10Acc(n, i, acc) ==
  IF i = 0 \/ Len(acc) < 0 THEN acc
  ELSE BPow10Acc(n, i - 1,
                 IF (n \div 2^(i - 1)) % 2 = 1
                 THEN BMulSmall(BMul(acc, acc), 10) ELSE BMul(acc, acc))

BPow10(n) == BPow10Acc(n, IntBitLen(n), << 1 >>)

\* The float64 that the decimal literal m * 10^e denotes (m a natural
\* number): the nearest one, as Python reads it.
FDec(m, e) ==
  IF e >= 0 THEN RoundPack(0, BMul(m, BPow10(e)), 0, FALSE)
  ELSE FRatio(m, BPow10(0 - e))

\* scipy.constants (CODATA): pi, h, hbar = h / (2 pi), G, c.
pi_classical ==
  FDec(BAdd(BMul(BNat(31415926), BPow10(8)), BNat(53589793)), -15)

hbar == FDiv(FDec(BNat(662607015), -42), FMul(FInt(2), pi_classical))

G == FDec(BNat(66743), -15)

c == FInt(299792458)

PHI == FDiv(FAdd(FInt(1), FSqrt(FInt(5))), FInt(2))

PLANCK_LENGTH == FSqrt(FDiv(FMul(hbar, G), FPow(c, 3)))

\* A faulty variant of calculate_nmax that leaves out the division by
\* PLANCK_LENGTH.
calculate_nmax_unscaled(s0, lambda_seg) == FDiv(FLog(s0), FLog(PHI))

\* lambda_seg is not used by the body.
calculate_nmax(s0, lambda_seg) ==
  LET N_max == FDiv(FLog(FDiv(s0, PLANCK_LENGTH)), FLog(PHI))
  IN  N_max

s0_schwarzschild ==
  FDiv(FMul(FMul(FInt(2), G), FDec(BNat(1989), 27)), FPow(c, 2))

s0_compton == FDiv(hbar, FMul(FDec(BNat(9109), -34), c))

s0_classical == FInt(1)

s0_typical == FSqrt(FMul(s0_schwarzschild, s0_compton))

N_max_schwarzschild == calculate_nmax(s0_schwarzschild, FInt(1))

N_max_compton == calculate_nmax(s0_compton, FInt(1))

N_max_classical == calculate_nmax(s0_classical, FInt(1))

N_max_typical == calculate_nmax(s0_typical, FInt(1))

\* A faulty variant of pi_eff whose radius shrinks: exp(-lambda_seg * N).
pi_eff_shrinking(N, R0, lambda_seg) ==
  FDiv(FMul(FInt(N), FMul(R0, FPow(PHI, 0 - N))),
       FMul(FInt(2), FMul(R0, FExp(FNeg(FMul(lambda_seg, FInt(N)))))))

\* N is an integer of N_range; R0 and lambda_seg are float64.
pi_eff(N, R0, lambda_seg) ==
  LET s_phi == FMul(R0, FPow(PHI, 0 - N))
      R_N == FMul(R0, FExp(FMul(lambda_seg, FInt(N))))
      C_N == FMul(FInt(N), s_phi)
      pi_eff_value == FDiv(C_N, FMul(FInt(2), R_N))
  IN  pi_eff_value

(***************************************************************************)
(* numpy array operations used by the convergence scan.  An array is a     *)
(* sequence; numpy indices are 0-based, so numpy index i is position       *)
(* i + 1 of the sequence.                                                  *)
(***************************************************************************)
\* np.arange(1, end_, 1)
np_arange(end_) == SubSeq([i \in 1..(end_ - 1) |-> i], 1, end_ - 1)

\* np.diff(a): a[i+1] - a[i]; empty for fewer than two elements.
np_diff(a) ==
  SubSeq([i \in 1..(Len(a) - 1) |-> FSub(a[i + 1], a[i])], 1, Len(a) - 1)

\* np.abs(a), elementwise.
np_abs(a) == SubSeq([i \in 1..Len(a) |-> FAbs(a[i])], 1, Len(a))

\* A faulty variant of np_where_less that lists the indices descending.
np_where_less_desc(a, eps) ==
  LET hit == {i \in 0..(Len(a) - 1) : FLt(a[i + 1], eps)}
  IN  SubSeq([j \in 1..Cardinality(hit) |->
                CHOOSE x \in hit : Cardinality({y \in hit : y > x}) = j - 1],
             1, Cardinality(hit))

\* np.where(a < eps)[0]: the numpy indices i with a[i] < eps, ascending.
np_where_less(a, eps) ==
  LET hit == {i \in 0..(Len(a) - 1) : FLt(a[i + 1], eps)}
  IN  SubSeq([j \in 1..Cardinality(hit) |->
                CHOOSE x \in hit : Cardinality({y \in hit : y < x}) = j - 1],
             1, Cardinality(hit))

(***************************************************************************)
(* The run of the script.                                                  *)
(*   pc                 the statement the run is at                        *)
(*   stop               the end of N_range (100 in the script)             *)
(*   phi_steps          the exponent of the scale l_p * PHI^k (42 in the   *)
(*                      script)                                            *)
(*   s0_answer          the scale built from it, << >> before that         *)
(*   N_max_answer       calculate_nmax of that scale, << >> before that    *)
(*   N_range, pi_eff_values, pi_diff, epsilon, convergence_index,          *)
(*   pi_diff_classical  the script's variables of these names              *)
(*   N_convergence      << >> while the name is unbound, << N >> after     *)
(*   output             the lines printed, each with the values formatted  *)
(*                      into it                                            *)
(*   image              whether the image file has been written            *)
(*   error              the exception that ended the run, or "none"        *)
(***************************************************************************)
VARIABLES pc, stop, phi_steps, s0_answer, N_max_answer, N_range,
          pi_eff_values, pi_diff, epsilon, convergence_index, N_convergence,
          pi_diff_classical, marker, output, image, error

vars == << pc, stop, phi_steps, s0_answer, N_max_answer, N_range,
           pi_eff_values, pi_diff, epsilon, convergence_index,
           N_convergence, pi_diff_classical, marker, output, image,
           error >>

plotVars == << pi_diff_classical, marker >>

scanVars == << N_range, pi_eff_values, pi_diff, epsilon, convergence_index,
               N_convergence, plotVars >>

nmaxVars == << phi_steps, s0_answer, N_max_answer >>

Line(name, values) == [line |-> name, args |-> values]

\* An uncaught exception: the traceback is printed and the run ends.
Raise(exc) == pc' = "failed" /\ error' = exc

\* The ends of N_range explored besides the script's: ranges of 0, 1, 2, 10,
\* 11, 16 and 18 samples.
RefStop == 100
ShortStops == {1, 2, 3, 11, 12, 17, 19}

RefSteps == 42

InitScanVars ==
  /\ N_range = << >>
  /\ pi_eff_values = << >>
  /\ pi_diff = << >>
  /\ epsilon = FDec(<< 1 >>, -10)
  /\ convergence_index = << >>
  /\ N_convergence = << >>
  /\ pi_diff_classical = << >>
  /\ marker = << >>

Init ==
  /\ pc = "scale"
  /\ stop \in ShortStops \cup {RefStop}
  /\ phi_steps = RefSteps
  /\ s0_answer = << >>
  /\ N_max_answer = << >>
  /\ InitScanVars
  /\ output = << >>
  /\ image = FALSE
  /\ error = "none"

(***************************************************************************)
(* Section 1: the segmentation limit.                                      *)
(***************************************************************************)
\* s0_answer_42 = PLANCK_LENGTH * PHI**42
MakeScale ==
  /\ pc = "scale"
  /\ s0_answer' = << FMul(PLANCK_LENGTH, FPow(PHI, phi_steps)) >>
  /\ pc' = "nmax"
  /\ UNCHANGED << stop, phi_steps, N_max_answer, scanVars, output, image,
                  error >>

\* The calls of calculate_nmax and the lines that print their results.
CallNmax ==
  /\ pc = "nmax"
  /\ LET N_max_42 == calculate_nmax(s0_answer[1], FInt(1))
     IN  /\ N_max_answer' = << N_max_42 >>
         /\ output' = output \o
              << Line("N_max", << s0_schwarzschild, N_max_schwarzschild >>),
                 Line("N_max", << s0_compton, N_max_compton >>),
                 Line("N_max", << s0_classical, N_max_classical >>),
                 Line("N_max", << s0_typical, N_max_typical >>),
                 Line("N_max", << s0_answer[1], N_max_42 >>) >>
  /\ pc' = "range"
  /\ UNCHANGED << stop, phi_steps, s0_answer, scanVars, image, error >>

(***************************************************************************)
(* Section 2: the convergence scan.                                        *)
(***************************************************************************)
\* N_range = np.arange(1, 100, 1)
MakeRange ==
  /\ pc = "range"
  /\ N_range' = np_arange(stop)
  /\ pc' = "pi_eff"
  /\ UNCHANGED << stop, nmaxVars, pi_eff_values, pi_diff, epsilon,
                  convergence_index, N_convergence, plotVars,
                  output, image, error >>

\* One element of [pi_eff(N) for N in N_range].
PiEffStep ==
  /\ pc = "pi_eff"
  /\ Len(pi_eff_values) < Len(N_range)
  /\ pi_eff_values' =
       Append(pi_eff_values,
              pi_eff(N_range[Len(pi_eff_values) + 1], FInt(1), FInt(1)))
  /\ UNCHANGED << pc, stop, nmaxVars, N_range, pi_diff, epsilon,
                  convergence_index, N_convergence, plotVars,
                  output, image, error >>

\* pi_diff = np.abs(np.diff(pi_eff_values)), once the list is complete.
Diff ==
  /\ pc = "pi_eff"
  /\ Len(pi_eff_values) = Len(N_range)
  /\ pi_diff' = np_abs(np_diff(pi_eff_values))
  /\ pc' = "where"
  /\ UNCHANGED << stop, nmaxVars, N_range, pi_eff_values, epsilon,
                  convergence_index, N_convergence, plotVars,
                  output, image, error >>

\* convergence_index = np.where(pi_diff < epsilon)[0]
Where ==
  /\ pc = "where"
  /\ convergence_index' = np_where_less(pi_diff, epsilon)
  /\ pc' = "report"
  /\ UNCHANGED << stop, nmaxVars, N_range, pi_eff_values, pi_diff, epsilon,
                  N_convergence, plotVars, output, image, error >>

\* A faulty variant of ReportFound that prints the sample after the
\* selected one.
ReportFoundNext ==
  /\ pc = "report"
  /\ Len(convergence_index) > 0
  /\ LET first == convergence_index[1]
         value == pi_eff_values[first + 2]
     IN  /\ N_convergence' = << N_range[first + 1] >>
         /\ output' = Append(output,
              Line("convergence",
                   << N_range[first + 1], value, pi_classical,
                      FAbs(FSub(value, pi_classical)) >>))
  /\ pc' = "plot1"
  /\ UNCHANGED << stop, nmaxVars, N_range, pi_eff_values, pi_diff, epsilon,
                  convergence_index, plotVars, image, error >>

\* The branch len(convergence_index) > 0.
ReportFound ==
  /\ pc = "report"
  /\ Len(convergence_index) > 0
  /\ LET first == convergence_index[1]
         value == pi_eff_values[first + 1]
     IN  /\ N_convergence' = << N_range[first + 1] >>
         /\ output' = Append(output,
              Line("convergence",
                   << N_range[first + 1], value, pi_classical,
                      FAbs(FSub(value, pi_classical)) >>))
  /\ pc' = "plot1"
  /\ UNCHANGED << stop, nmaxVars, N_range, pi_eff_values, pi_diff, epsilon,
                  convergence_index, plotVars, image, error >>

\* The else branch: the warning names N_range[-1], which raises IndexError
\* on an empty range.
ReportNotFound ==
  /\ pc = "report"
  /\ Len(convergence_index) = 0
  /\ IF Len(N_range) = 0
     THEN Raise("IndexError") /\ UNCHANGED output
     ELSE /\ output' = Append(output,
                              Line("warning", << N_range[Len(N_range)] >>))
          /\ pc' = "plot1"
          /\ UNCHANGED error
  /\ UNCHANGED << stop, nmaxVars, scanVars, image >>

(***************************************************************************)
(* Section 3: the figure.  Only the state that a later statement or a      *)
(* printed line depends on is kept: what is drawn goes to the figure and   *)
(* is not read back.                                                       *)
(***************************************************************************)
\* Plot 1: N_max over np.logspace(-40, 5, 1000), all positive scales.
Plot1 ==
  /\ pc = "plot1"
  /\ pc' = "plot2"
  /\ UNCHANGED << stop, nmaxVars, scanVars, output, image, error >>

\* Plot 2: the marker at N_convergence is drawn only if an index was found.
Plot2 ==
  /\ pc = "plot2"
  /\ IF Len(convergence_index) > 0
     THEN IF N_convergence = << >>
          THEN Raise("NameError") /\ UNCHANGED marker
          ELSE /\ marker' = << N_convergence[1],
                               pi_eff_values[convergence_index[1] + 1] >>
               /\ pc' = "plot3"
               /\ UNCHANGED error
     ELSE pc' = "plot3" /\ UNCHANGED << marker, error >>
  /\ UNCHANGED << stop, nmaxVars, N_range, pi_eff_values, pi_diff, epsilon,
                  convergence_index, N_convergence, pi_diff_classical,
                  output, image >>

\* Plot 3: pi_diff_classical = np.abs(pi_eff_values - pi_classical)
Plot3 ==
  /\ pc = "plot3"
  /\ pi_diff_classical' =
       SubSeq([i \in 1..Len(pi_eff_values) |->
                 FAbs(FSub(pi_eff_values[i], pi_classical))],
              1, Len(pi_eff_values))
  /\ pc' = "plot5"
  /\ UNCHANGED << stop, nmaxVars, N_range, pi_eff_values, pi_diff, epsilon,
                  convergence_index, N_convergence, marker, output, image,
                  error >>

\* The first samples that np.argmin(np.abs(dpi_dN[10:])) skips.
SkipFirst == 10

\* Plot 5: np.gradient needs two samples and np.argmin a non-empty slice
\* dpi_dN[10:]; either raises ValueError otherwise.
Plot5 ==
  /\ pc = "plot5"
  /\ IF Len(pi_eff_values) < 2 \/ Len(pi_eff_values) <= SkipFirst
     THEN Raise("ValueError")
     ELSE pc' = "plot6" /\ UNCHANGED error
  /\ UNCHANGED << stop, nmaxVars, scanVars, output, image >>

\* Plot 6: the three text columns and the title.
Plot6 ==
  /\ pc = "plot6"
  /\ pc' = "savefig"
  /\ UNCHANGED << stop, nmaxVars, scanVars, output, image, error >>

\* A faulty variant of SaveFig that goes on to the confirmation line
\* whether or not the file was written.
SaveFigUnchecked ==
  /\ pc = "savefig"
  /\ \E written \in BOOLEAN : image' = written
  /\ pc' = "saved"
  /\ UNCHANGED << stop, nmaxVars, scanVars, output, error >>

\* plt.savefig: the file is written, or the write fails with OSError.
SaveFig ==
  /\ pc = "savefig"
  /\ \E written \in BOOLEAN :
       IF written
       THEN image' = TRUE /\ pc' = "saved" /\ UNCHANGED error
       ELSE Raise("OSError") /\ UNCHANGED image
  /\ UNCHANGED << stop, nmaxVars, scanVars, output >>

\* print(f"Plot saved: {output_file}")
PrintSaved ==
  /\ pc = "saved"
  /\ output' = Append(output, Line("saved", << >>))
  /\ pc' = "summary"
  /\ UNCHANGED << stop, nmaxVars, scanVars, image, error >>

(***************************************************************************)
(* Section 4: the summary.                                                 *)
(***************************************************************************)
Summary ==
  /\ pc = "summary"
  /\ output' = Append(output,
       Line("summary", << N_max_schwarzschild, N_max_compton,
                          N_max_classical, N_max_typical,
                          N_max_answer[1], s0_answer[1] >>))
  /\ pc' = "show"
  /\ UNCHANGED << stop, nmaxVars, scanVars, image, error >>

\* plt.show(), then the script ends.
Show ==
  /\ pc = "show"
  /\ pc' = "done"
  /\ UNCHANGED << stop, nmaxVars, scanVars, output, image, error >>

Next ==
  \/ MakeScale
  \/ CallNmax
  \/ MakeRange
  \/ PiEffStep
  \/ Diff
  \/ Where
  \/ ReportFound
  \/ ReportNotFound
  \/ Plot1
  \/ Plot2
  \/ Plot3
  \/ Plot5
  \/ Plot6
  \/ SaveFig
  \/ PrintSaved
  \/ Summary
  \/ Show

Spec == Init /\ [][Next]_vars


(***************************************************************************)
(* The convergence scan on its own, over every sample sequence of up to    *)
(* MaxLen values drawn from ScanValues and both tolerances of ScanEps.     *)
(***************************************************************************)
MaxLen == 4

ScanValues == {FInt(0), FInt(1), FInt(3), Inf(0)}

ScanEps == {FInt(1), FInt(2)}

InitScan ==
  /\ pc = "pi_eff"
  /\ stop \in 1..(MaxLen + 1)
  /\ N_range = np_arange(stop)
  /\ pi_eff_values \in [1..(stop - 1) -> ScanValues]
  /\ epsilon \in ScanEps
  /\ phi_steps = RefSteps
  /\ s0_answer = << >>
  /\ N_max_answer = << >>
  /\ pi_diff = << >>
  /\ convergence_index = << >>
  /\ N_convergence = << >>
  /\ pi_diff_classical = << >>
  /\ marker = << >>
  /\ output = << >>
  /\ image = FALSE
  /\ error = "none"

NextScan ==
  \/ Diff
  \/ Where
  \/ ReportFound
  \/ ReportNotFound

SpecScan == InitScan /\ [][NextScan]_vars

(***************************************************************************)
(* calculate_nmax on its own: on the scales PLANCK_LENGTH * PHI^k for k in *)
(* -KLow..KHigh and for the k of EdgeSteps, where PHI^k or the scale       *)
(* leaves the range of float64 or of its normal numbers, and on the scales *)
(* 0.0, -0.0 and -1.0.                                                     *)
(***************************************************************************)
KLow == 5

KHigh == 45

EdgeSteps == {-1600, -1344, -1343, -1306, -1305, 1474, 1475}

NonPositiveScales == {Zero(0), Zero(1), FInt(-1)}

InitNmax ==
  /\ \/ /\ pc = "scale"
        /\ phi_steps \in ((0 - KLow)..KHigh) \cup EdgeSteps
        /\ s0_answer = << >>
     \/ /\ pc = "nmax"
        /\ phi_steps = 0
        /\ s0_answer \in {<< s >> : s \in NonPositiveScales}
  /\ stop = RefStop
  /\ N_max_answer = << >>
  /\ InitScanVars
  /\ output = << >>
  /\ image = FALSE
  /\ error = "none"

NextNmax ==
  \/ MakeScale
  \/ CallNmax

SpecNmax == InitNmax /\ [][NextNmax]_vars

(***************************************************************************)
(* Properties.                                                             *)
(***************************************************************************)
\* The statements before the scan's result exists.
BeforeReport == {"scale", "nmax", "range", "pi_eff", "where"}

\* The numpy indices i with d_i = |v[i+1] - v[i]| < eps, taken from the
\* samples themselves.
Below(v, eps) ==
  {i \in 0..(Len(v) - 2) : FLt(FAbs(FSub(v[i + 2], v[i + 1])), eps)}

\* The lines of one kind printed so far.
Printed(kind) == {i \in 1..Len(output) : output[i].line = kind}

\* C1: once the scan has run, convergence_index is empty exactly when no
\* successive difference is below epsilon; otherwise its first element is
\* the smallest index i with d_i < epsilon, and the convergence point the
\* report binds is the segment count at that index.
C1_SelectsSmallest ==
  pc \notin BeforeReport =>
    IF Below(pi_eff_values, epsilon) = {}
    THEN convergence_index = << >> /\ N_convergence = << >>
    ELSE /\ convergence_index # << >>
         /\ convergence_index[1] = MinOf(Below(pi_eff_values, epsilon))
         /\ \A j \in 0..(convergence_index[1] - 1) :
               ~FLt(FAbs(FSub(pi_eff_values[j + 2], pi_eff_values[j + 1])),
                    epsilon)
         /\ pc = "plot1" =>
              N_convergence = << N_range[convergence_index[1] + 1] >>

\* C1 witness: an index was selected that is not the first, and a later
\* difference is below epsilon as well.
C1_Witness ==
  /\ pc = "plot1"
  /\ Len(convergence_index) >= 2
  /\ convergence_index[1] > 0

\* C2 as stated: the third value of the reported convergence point is the
\* successive difference d_i that satisfied the threshold.
C2_ReportsSuccessiveDifference ==
  (pc = "plot1" /\ convergence_index # << >>) =>
    /\ output[Len(output)].args[1] = N_range[convergence_index[1] + 1]
    /\ output[Len(output)].args[2] = pi_eff_values[convergence_index[1] + 1]
    /\ output[Len(output)].args[4] = pi_diff[convergence_index[1] + 1]

\* C2 as the code has it: when an index i is found, the report is the last
\* line printed and holds N_i, v_i, pi_classical and the distance
\* |v_i - pi_classical| of the sample from pi_classical.
C2_ReportsDistanceToClassical ==
  (pc = "plot1" /\ convergence_index # << >>) =>
    output[Len(output)] =
      Line("convergence",
           << N_range[convergence_index[1] + 1],
              pi_eff_values[convergence_index[1] + 1],
              pi_classical,
              FAbs(FSub(pi_eff_values[convergence_index[1] + 1],
                        pi_classical)) >>)

\* C2 witness: a report of an index that is not the first, whose sample
\* differs from the next one.
C2_Witness ==
  /\ pc = "plot1"
  /\ convergence_index # << >>
  /\ convergence_index[1] > 0
  /\ pi_eff_values[convergence_index[1] + 1]
       # pi_eff_values[convergence_index[1] + 2]
  /\ Printed("convergence") # {}

\* C3 as stated: a run whose scan finds no index prints the warning and no
\* convergence point, and nothing but a failed image write ends it early.
C3_NotFoundIsNotFatal ==
  (pc \notin BeforeReport /\ pc # "report" /\ convergence_index = << >>) =>
    /\ Printed("warning") # {}
    /\ Printed("convergence") = {}
    /\ pc = "failed" => error = "OSError"

\* C3 failing run: no index was found, the warning was printed, and the run
\* died in Plot 5 before the image was saved.
C3_DiesAfterWarning ==
  /\ pc = "failed"
  /\ error = "ValueError"
  /\ convergence_index = << >>
  /\ Printed("warning") # {}
  /\ ~image

\* C4 as stated: on a range of fewer than two samples the scan and its
\* report give "not converged" (the warning line) and raise nothing.
C4_ShortRangeNotConverged ==
  (pc \notin BeforeReport /\ pc # "report" /\ Len(N_range) < 2) =>
    /\ convergence_index = << >>
    /\ Printed("warning") # {}
    /\ error # "IndexError"

\* C4 failing run: on the empty range the not-found branch raises
\* IndexError while it formats the warning, and prints nothing.
C4_EmptyRangeRaises ==
  /\ pc = "failed"
  /\ error = "IndexError"
  /\ Len(N_range) = 0
  /\ Printed("warning") = {}

\* A scale that is not positive: a zero of either sign, or negative.
NonPositive(s) == IsZero(s) \/ (s.cls # "nan" /\ s.sign = 1)

\* C5 as stated: calculate_nmax returns no value for a scale that is not
\* positive; the call ends the run.
C5_NonPositiveScaleFails ==
  (s0_answer # << >> /\ NonPositive(s0_answer[1]) /\ pc # "nmax") =>
    /\ N_max_answer = << >>
    /\ pc = "failed"

\* C5 failing run: calculate_nmax has returned a value (-inf or nan) for a
\* scale that is not positive, and the run goes on.
C5_ReturnsForNonPositive ==
  /\ s0_answer # << >>
  /\ NonPositive(s0_answer[1])
  /\ N_max_answer # << >>
  /\ N_max_answer[1].cls \in {"inf", "nan"}
  /\ pc # "failed"

\* The tolerance 1e-9 of the inverse relationship.
InverseTol == FDec(<< 1 >>, -9)

\* s0_answer was built from phi_steps, and N_max_answer is within
\* InverseTol of phi_steps.
InverseHolds ==
  FLe(FAbs(FSub(N_max_answer[1], FInt(phi_steps))), InverseTol)

\* A positive normal float64: 53 significant bits.
IsNormal(s) ==
  s.cls = "fin" /\ s.sign = 0 /\ BBitLen(s.man) = MantBits

Transient == 10

\* C7 as stated: past the initial transient, each sample of the reference
\* run up to N = 60 is at least as close to pi_classical as the one before.
C7_ApproachesClassical ==
  (stop = RefStop /\ pi_diff_classical # << >>) =>
    \A N \in (Transient + 1)..60 :
       FLe(pi_diff_classical[N + 1], pi_diff_classical[N])

\* C7 failing run: right after the transient, the sample at N + 1 is
\* farther from pi_classical than the sample at N.
C7_Recedes ==
  /\ stop = RefStop
  /\ pi_diff_classical # << >>
  /\ FLt(pi_diff_classical[Transient + 1], pi_diff_classical[Transient + 2])

\* C8: in the reference run (N in [1, 100), epsilon = 1e-10) the scan
\* selects an index, so the run reports a convergence point and no warning.
C8_ReferenceConverges ==
  (stop = RefStop /\ pc \notin BeforeReport) =>
    /\ Len(convergence_index) > 0
    /\ pc # "report" => (Printed("convergence") # {} /\ Printed("warning") = {})

\* C8 witness: the reference run has reported its convergence point.
C8_Witness ==
  /\ stop = RefStop
  /\ Len(pi_eff_values) = RefStop - 1
  /\ pc = "plot1"
  /\ N_convergence # << >>

\* C9: the confirmation line is printed only once the image is written; a
\* failed write ends the run there, with neither the confirmation line nor
\* the summary printed, and no statement follows it.
C9_SavedOnlyAfterWrite ==
  /\ Printed("saved") # {} => image
  /\ Printed("summary") # {} => Printed("saved") # {}
  /\ error = "OSError" =>
       /\ pc = "failed"
       /\ ~image
       /\ Printed("saved") = {}
       /\ Printed("summary") = {}
       /\ ~ENABLED Next

\* C9 witness: the image write has failed.
C9_Witness == pc = "failed" /\ error = "OSError"

\* C10 as stated: the reference run finds its convergence point at N = 42,
\* and every sample from N = 42 on is within epsilon of pi_classical.
C10_ConvergesAt42 ==
  (stop = RefStop /\ pi_diff_classical # << >>) =>
    /\ N_convergence = << RefSteps >>
    /\ \A N \in RefSteps..(RefStop - 1) :
          FLt(pi_diff_classical[N], epsilon)

\* C10 failing run: the reference scan stops at N = 17, and the sample at
\* N = 42 is farther than 3 from pi_classical.
C10_ConvergesAt17 ==
  /\ stop = RefStop
  /\ pi_diff_classical # << >>
  /\ N_convergence = << 17 >>
  /\ FLt(FInt(3), pi_diff_classical[RefSteps])
====
